---- MODULE Spec2Model ----
(***************************************************************************)
(* URI-Dereferencer: the URI resolver (extractURIFromPath, makeLocalLink)  *)
(* and the page-load pipeline of dereferencer.js (init, loadResource and   *)
(* the steps they call), modelled from the source.                         *)
(*                                                                         *)
(* A JavaScript string is a sequence of one-character strings.             *)
(***************************************************************************)
EXTENDS Integers, Sequences, FiniteSets, TLC

\* ------------------------------------------------------------------ bounds

\* Longest text after 'http://' or 'https://' in a request path (SpecResolve).
MaxTail == 5

\* Longest text of a request path with another or no scheme prefix.
MaxPlainTail == 3

\* Longest text after the namespace of a URI whose link is built (SpecLink).
MaxLinkTail == 3

\* ----------------------------------------------------------------- strings

\* The characters request paths and URIs are built from: a plain character,
\* the path separator, the escape character and three hexadecimal digits.
Alphabet == {"x", "/", "%", "2", "5", "F"}

RECURSIVE SeqsUpTo(_, _)
SeqsUpTo(S, n) ==
  IF n = 0 THEN {<< >>}
  ELSE LET shorter == SeqsUpTo(S, n - 1)
       IN  shorter \cup {Append(s, c) : s \in shorter, c \in S}

\* String.prototype.startsWith
startsWith(s, p) ==
  /\ Len(p) <= Len(s)
  /\ SubSeq(s, 1, Len(p)) = p

\* String.prototype.substring(n), one argument
substring(s, n) ==
  IF n >= Len(s) THEN << >> ELSE SubSeq(s, n + 1, Len(s))

HTTP == <<"h", "t", "t", "p", ":", "/", "/">>
HTTPS == <<"h", "t", "t", "p", "s", ":", "/", "/">>
FTP == <<"f", "t", "p", ":", "/", "/">>
HTTPUpper == <<"H", "T", "T", "P", ":", "/", "/">>

\* ------------------------------------------------ decodeURIComponent

\* The value of one hexadecimal digit, -1 for any other character.
HexVal(c) ==
  CASE c = "0" -> 0 [] c = "1" -> 1 [] c = "2" -> 2 [] c = "3" -> 3
    [] c = "4" -> 4 [] c = "5" -> 5 [] c = "6" -> 6 [] c = "7" -> 7
    [] c = "8" -> 8 [] c = "9" -> 9
    [] c \in {"A", "a"} -> 10 [] c \in {"B", "b"} -> 11
    [] c \in {"C", "c"} -> 12 [] c \in {"D", "d"} -> 13
    [] c \in {"E", "e"} -> 14 [] c \in {"F", "f"} -> 15
    [] OTHER -> -1

\* The printable ASCII characters, code 32 first; the double quote, the
\* backslash and the backtick are written as tokens.
Ascii ==
  << " ", "!", "<dq>", "#", "$", "%", "&", "'", "(", ")", "*", "+", ",", "-",
     ".", "/", "0", "1", "2", "3", "4", "5", "6", "7", "8", "9", ":", ";",
     "<", "=", ">", "?", "@", "A", "B", "C", "D", "E", "F", "G", "H", "I",
     "J", "K", "L", "M", "N", "O", "P", "Q", "R", "S", "T", "U", "V", "W",
     "X", "Y", "Z", "[", "<bs>", "]", "^", "_", "<bt>", "a", "b", "c", "d", "e",
     "f", "g", "h", "i", "j", "k", "l", "m", "n", "o", "p", "q", "r", "s",
     "t", "u", "v", "w", "x", "y", "z", "{", "|", "}", "~" >>

\* The character of a byte below 128; control characters share one token.
ByteChar(b) == IF b >= 32 /\ b <= 126 THEN Ascii[b - 31] ELSE "<ctl>"

\* A character outside ASCII, decoded from a multi-byte UTF-8 sequence.
NonAscii == "<u>"

\* What a throwing call yields instead of a string.
URIError == <<"<URIError>">>

\* The byte of the escape at s[k..k+2], -1 when it is not '%' hex hex.
EscapeByte(s, k) ==
  IF k + 2 > Len(s) \/ s[k] # "%" THEN -1
  ELSE IF HexVal(s[k + 1]) < 0 \/ HexVal(s[k + 2]) < 0 THEN -1
  ELSE 16 * HexVal(s[k + 1]) + HexVal(s[k + 2])

\* Number of leading 1 bits of a byte.
LeadingOnes(b) ==
  IF b < 128 THEN 0 ELSE IF b < 192 THEN 1 ELSE IF b < 224 THEN 2
  ELSE IF b < 240 THEN 3 ELSE IF b < 248 THEN 4 ELSE 5

\* Whether the bytes are the UTF-8 encoding of one code point.
Utf8Valid(octets) ==
  LET n == Len(octets)
      b1 == octets[1]
      b2 == octets[2]
  IN  /\ \A j \in 2..n : octets[j] >= 128 /\ octets[j] <= 191
      /\ b1 >= 194
      /\ b1 <= 244
      /\ (b1 = 224 => b2 >= 160)
      /\ (b1 = 237 => b2 <= 159)
      /\ (b1 = 240 => b2 >= 144)
      /\ (b1 = 244 => b2 <= 143)

\* The loop of ECMAScript's Decode with position k (1-based) and result R.
RECURSIVE DecodeFrom(_, _, _)
DecodeFrom(s, k, R) ==
  IF k > Len(s) THEN R
  ELSE IF s[k] # "%" THEN DecodeFrom(s, k + 1, Append(R, s[k]))
  ELSE LET B == EscapeByte(s, k)
           n == LeadingOnes(B)
           octets == [j \in 1..n |-> EscapeByte(s, k + 3 * (j - 1))]
       IN  IF B < 0 THEN URIError
           ELSE IF n = 0 THEN DecodeFrom(s, k + 3, Append(R, ByteChar(B)))
           ELSE IF n = 1 \/ n > 4 THEN URIError
           ELSE IF k + 3 * n - 1 > Len(s) THEN URIError
           ELSE IF \E j \in 1..n : octets[j] < 0 THEN URIError
           ELSE IF ~Utf8Valid(octets) THEN URIError
           ELSE DecodeFrom(s, k + 3 * n, Append(R, NonAscii))

decodeURIComponent(s) == DecodeFrom(s, 1, << >>)

\* ------------------------------------------------------------ URI resolver

Null == [kind |-> "null", value |-> << >>]
Thrown == [kind |-> "URIError", value |-> << >>]
Str(v) == [kind |-> "string", value |-> v]

\* extractURIFromPath returning the full URI of testing mode undecoded.
extractURIFromPath_NoDecode(pathname, baseUri) ==
  LET uri == substring(pathname, 1)
  IN  IF uri = << >> \/ uri = <<"/">> THEN Null
      ELSE IF startsWith(uri, HTTP) \/ startsWith(uri, HTTPS) THEN Str(uri)
      ELSE Str(baseUri \o <<"/">> \o uri)

\* extractURIFromPath taking the upper-case scheme for a full URI as well.
extractURIFromPath_AnyCase(pathname, baseUri) ==
  LET uri == substring(pathname, 1)
  IN  IF uri = << >> \/ uri = <<"/">> THEN Null
      ELSE IF \/ startsWith(uri, HTTP) \/ startsWith(uri, HTTPS)
              \/ startsWith(uri, HTTPUpper)
           THEN LET d == decodeURIComponent(uri)
                IN  IF d = URIError THEN Thrown ELSE Str(d)
      ELSE Str(baseUri \o <<"/">> \o uri)

\* extractURIFromPath without the test for an empty or root path.
extractURIFromPath_NoEmptyCheck(pathname, baseUri) ==
  LET uri == substring(pathname, 1)
  IN  IF startsWith(uri, HTTP) \/ startsWith(uri, HTTPS)
      THEN LET d == decodeURIComponent(uri)
           IN  IF d = URIError THEN Thrown ELSE Str(d)
      ELSE Str(baseUri \o <<"/">> \o uri)

\* extractURIFromPath with window.location.pathname = pathname and
\* CONFIG.BASE_URI = baseUri (window.location.origin).
extractURIFromPath(pathname, baseUri) ==
  LET uri == substring(pathname, 1)
  IN  IF uri = << >> \/ uri = <<"/">> THEN Null
      ELSE IF startsWith(uri, HTTP) \/ startsWith(uri, HTTPS)
           THEN LET d == decodeURIComponent(uri)
                IN  IF d = URIError THEN Thrown ELSE Str(d)
      ELSE Str(baseUri \o <<"/">> \o uri)

\* makeLocalLink without the '/' that stands in for an empty path suffix.
makeLocalLink_NoRoot(uri, ns, org) ==
  IF ~startsWith(uri, ns) THEN Null
  ELSE IF org = ns THEN Str(substring(uri, Len(ns)))
  ELSE Str(<<"/">> \o uri)

\* makeLocalLink with CONFIG.ENTITY_NS = ns and window.location.origin = org.
makeLocalLink(uri, ns, org) ==
  IF ~startsWith(uri, ns) THEN Null
  ELSE IF org = ns
       THEN IF substring(uri, Len(ns)) = << >> THEN Str(<<"/">>)
            ELSE Str(substring(uri, Len(ns)))
  ELSE Str(<<"/">> \o uri)

\* The directory of a path: the path up to and including its last '/'.
RECURSIVE DirOf(_)
DirOf(p) ==
  IF p = << >> THEN <<"/">>
  ELSE IF p[Len(p)] = "/" THEN p
  ELSE DirOf(SubSeq(p, 1, Len(p) - 1))

\* Where window.location.href = href leads from the page at curPath: "path"
\* with the new pathname on the same origin, or "left" when the reference
\* names another authority (it starts with "//").  The characters of Alphabet
\* are kept as they are by the URL parser's path state.
HrefTarget(href, curPath) ==
  IF startsWith(href, <<"/", "/">>) THEN [kind |-> "left", value |-> << >>]
  ELSE IF startsWith(href, <<"/">>) THEN [kind |-> "path", value |-> href]
  ELSE [kind |-> "path", value |-> DirOf(curPath) \o href]

\* ------------------------------------------------- RDF terms and triples

\* NS.RDF, NS.RDFS, NS.XSD and NS.GSP, and the local names used with them.
NS_RDF ==
  <<"h", "t", "t", "p", ":", "/", "/", "w", "w", "w", ".", "w", "3", ".",
  "o", "r", "g", "/", "1", "9", "9", "9", "/", "0", "2", "/", "2", "2", "-",
  "r", "d", "f", "-", "s", "y", "n", "t", "a", "x", "-", "n", "s", "#">>
NS_RDFS ==
  <<"h", "t", "t", "p", ":", "/", "/", "w", "w", "w", ".", "w", "3", ".",
  "o", "r", "g", "/", "2", "0", "0", "0", "/", "0", "1", "/", "r", "d", "f",
  "-", "s", "c", "h", "e", "m", "a", "#">>
NS_XSD ==
  <<"h", "t", "t", "p", ":", "/", "/", "w", "w", "w", ".", "w", "3", ".",
  "o", "r", "g", "/", "2", "0", "0", "1", "/", "X", "M", "L", "S", "c", "h",
  "e", "m", "a", "#">>
NS_GSP ==
  <<"h", "t", "t", "p", ":", "/", "/", "w", "w", "w", ".", "o", "p", "e",
  "n", "g", "i", "s", ".", "n", "e", "t", "/", "o", "n", "t", "/", "g", "e",
  "o", "s", "p", "a", "r", "q", "l", "#">>
TypeSuffix ==
  <<"t", "y", "p", "e">>
HasGeometrySuffix ==
  <<"h", "a", "s", "G", "e", "o", "m", "e", "t", "r", "y">>
LabelSuffix ==
  <<"l", "a", "b", "e", "l">>

RDF_TYPE == NS_RDF \o TypeSuffix
GSP_HAS_GEOMETRY == NS_GSP \o HasGeometrySuffix
RDFS_LABEL == NS_RDFS \o LabelSuffix
XSD_STRING == NS_XSD \o <<"s", "t", "r", "i", "n", "g">>

\* The datatype N3.js gives a literal with a language tag.
RDF_LANGSTRING == NS_RDF \o <<"l", "a", "n", "g", "S", "t", "r", "i", "n", "g">>

\* N3.js terms.  A literal always carries a datatype.
NamedNode(v) ==
  [termType |-> "NamedNode", value |-> v, language |-> << >>, datatype |-> << >>]
Literal(v, lang, dt) ==
  [termType |-> "Literal", value |-> v, language |-> lang, datatype |-> dt]
BlankNode(v) ==
  [termType |-> "BlankNode", value |-> v, language |-> << >>, datatype |-> << >>]

Triple(s, p, o) == [subject |-> s, predicate |-> p, object |-> o]

\* --------------------------------------------------------- prefix shortener

\* shortenURI returning from the last matching entry instead of the first.
shortenURI_LastMatch(uri, prefixes) ==
  LET hits == {i \in 1..Len(prefixes) : startsWith(uri, prefixes[i].namespace)}
  IN  IF hits = {} THEN uri
      ELSE LET last == CHOOSE i \in hits : \A j \in hits : j <= i
           IN  prefixes[last].prefix \o <<":">>
                 \o substring(uri, Len(prefixes[last].namespace))

\* shortenURI taking the longest matching namespace instead of the first.
shortenURI_LongestMatch(uri, prefixes) ==
  LET hits == {i \in 1..Len(prefixes) : startsWith(uri, prefixes[i].namespace)}
  IN  IF hits = {} THEN uri
      ELSE LET longest == CHOOSE i \in hits : \A j \in hits :
                            Len(prefixes[j].namespace) <= Len(prefixes[i].namespace)
           IN  prefixes[longest].prefix \o <<":">>
                 \o substring(uri, Len(prefixes[longest].namespace))

\* shortenURI over PREFIXES = prefixes, a sequence of [namespace, prefix] in
\* the entry order of the object.
shortenURI(uri, prefixes) ==
  LET hits == {i \in 1..Len(prefixes) : startsWith(uri, prefixes[i].namespace)}
  IN  IF hits = {} THEN uri
      ELSE LET first == CHOOSE i \in hits : \A j \in hits : i <= j
           IN  prefixes[first].prefix \o <<":">>
                 \o substring(uri, Len(prefixes[first].namespace))

\* ------------------------------------------------------------ parseResource

\* this.types: the objects of the rdf:type triples, in their order.
typesOf(triples) ==
  LET typed == SelectSeq(triples, LAMBDA t : t.predicate = RDF_TYPE)
  IN  [i \in 1..Len(typed) |-> typed[i].object.value]

\* The geometry node after parseResource: the object of the first
\* gsp:hasGeometry triple, and the field's old value when there is none.
geometryNodeOf(triples, old) ==
  LET hits == {i \in 1..Len(triples) : triples[i].predicate = GSP_HAS_GEOMETRY}
  IN  IF hits = {} THEN old
      ELSE Str(triples[CHOOSE i \in hits : \A j \in hits : i <= j].object.value)

\* --------------------------------------------------------- renderProperties

\* The UTF-16 code unit of a character.
CharCode(c) == 31 + CHOOSE i \in 1..Len(Ascii) : Ascii[i] = c

\* The order of Array.prototype.sort without a comparator.
LexLess(a, b) ==
  \E i \in 1..Len(b) :
    /\ i <= Len(a) + 1
    /\ SubSeq(a, 1, i - 1) = SubSeq(b, 1, i - 1)
    /\ i = Len(a) + 1 \/ CharCode(a[i]) < CharCode(b[i])

\* The keys in the order sort() leaves them in: each key at the position
\* that counts the keys before it.
SortedKeys(S) ==
  [r \in 1..Cardinality(S) |->
     CHOOSE k \in S : Cardinality({j \in S : LexLess(j, k)}) = r - 1]

\* formatURI: the anchor of a predicate.
formatURI(uri, prefixes, ns, org) ==
  LET localLink == makeLocalLink(uri, ns, org)
  IN  [text |-> shortenURI(uri, prefixes),
       title |-> uri,
       href |-> IF localLink.kind = "string" THEN localLink.value ELSE uri,
       newTab |-> localLink.kind # "string"]

\* formatValue: the span of an object term.
formatValue(node, prefixes, ns, org) ==
  IF node.termType = "NamedNode"
  THEN LET localLink == makeLocalLink(node.value, ns, org)
       IN  [text |-> shortenURI(node.value, prefixes),
            title |-> node.value,
            lang |-> << >>,
            datatype |-> << >>,
            href |-> IF localLink.kind = "string" THEN localLink.value
                     ELSE node.value,
            newTab |-> localLink.kind # "string"]
  ELSE IF node.termType = "Literal"
  THEN [text |-> node.value,
        title |-> << >>,
        lang |-> node.language,
        datatype |-> IF node.datatype # << >> /\ node.datatype # XSD_STRING
                     THEN shortenURI(node.datatype, prefixes) ELSE << >>,
        href |-> << >>,
        newTab |-> FALSE]
  ELSE [text |-> node.value, title |-> << >>, lang |-> << >>,
        datatype |-> << >>, href |-> << >>, newTab |-> FALSE]

\* groupedValues keeping only the first of equal objects.
groupedValues_Deduplicated(triples, subject, pred) ==
  LET hits == SelectSeq(triples,
                        LAMBDA t : t.subject = subject /\ t.predicate = pred)
      firsts == {i \in 1..Len(hits) : \A j \in 1..(i - 1) : hits[j] # hits[i]}
  IN  [i \in 1..Cardinality(firsts) |->
         hits[CHOOSE k \in firsts :
                Cardinality({j \in firsts : j < k}) = i - 1].object]

\* The objects grouped under one predicate, in the order of their triples.
groupedValues(triples, subject, pred) ==
  LET hits == SelectSeq(triples,
                        LAMBDA t : t.subject = subject /\ t.predicate = pred)
  IN  [i \in 1..Len(hits) |-> hits[i].object]

\* The rows renderProperties appends to the table body.
renderProperties(triples, subject, prefixes, ns, org) ==
  LET preds == {triples[i].predicate :
                  i \in {j \in 1..Len(triples) : triples[j].subject = subject}}
      keys == SortedKeys(preds)
  IN  [r \in 1..Len(keys) |->
         LET values == groupedValues(triples, subject, keys[r])
         IN  [predicate |-> keys[r],
              cell |-> formatURI(keys[r], prefixes, ns, org),
              values |-> [v \in 1..Len(values) |->
                            formatValue(values[v], prefixes, ns, org)]]]

\* ------------------------------------------------------------------- state

VARIABLES
  origin,        \* window.location.origin, which is also CONFIG.BASE_URI
  entityNs,      \* CONFIG.ENTITY_NS
  path,          \* window.location.pathname
  step,          \* position of the resolver checks
  uriArg,        \* the URI handed to makeLocalLink
  link,          \* what makeLocalLink returned
  resolved,      \* what extractURIFromPath returned
  again,         \* what extractURIFromPath returned for '/' + resolved
  pc,            \* where the page load is suspended, or how it ended
  PREFIXES,      \* the prefix map, a sequence of [namespace, prefix]
  resourceURI,   \* this.resourceURI
  triples,       \* this.triples
  types,         \* this.types
  geometryNode,  \* this.geometryNode
  wktLiteral,    \* this.wktLiteral
  dom,           \* which sections of the page are displayed
  errors,        \* the messages showError was called with, in order
  table,         \* the rows of the property table
  seeAlso,       \* the items of the "See also" list
  geojson,       \* the coordinates of the parsed geometry object
  mapLayer,      \* the coordinates the map layer was built from
  epsg,          \* the projection-definition lookup
  net,           \* how each request or external call of the load ended
  log,           \* the pipeline steps started, in order
  shortened,     \* what shortenURI returned
  reshortened,   \* what shortenURI returned for its own result
  wktText,       \* the literal handed to initializeMap
  parsed,        \* what parseWKT returned for it
  transformCalled, \* whether initializeMap called transformCoordinates
  geoIn,         \* the geometry object handed to transformGeoJSON
  geoOut,        \* the geometry object after transformGeoJSON
  rdfViewer,     \* the raw RDF viewer: displayed, its title, its content
  requests       \* the raw RDF downloads started, in the order of the clicks

envVars == <<origin, entityNs, path>>
fnVars == <<step, uriArg, link, resolved, again>>
pageVars ==
  <<pc, PREFIXES, resourceURI, triples, types, geometryNode, wktLiteral, dom,
    errors, table, seeAlso, geojson, mapLayer, epsg, net, log>>
shortVars == <<shortened, reshortened>>
wktVars == <<wktText, parsed, transformCalled>>
geoVars == <<geoIn, geoOut>>
viewerVars == <<rdfViewer, requests>>
callVars == <<shortVars, wktVars, geoVars, viewerVars>>
vars == <<envVars, fnVars, pageVars, callVars>>

Unset == [kind |-> "unset", value |-> << >>]

\* shortenURI not called.
ShortIdle == shortened = Unset /\ reshortened = Unset

\* initializeMap not called.
WktIdle == wktText = << >> /\ parsed = Unset /\ transformCalled = FALSE

\* extractURIFromPath and makeLocalLink not called.
ResolverIdle ==
  /\ step = "start"
  /\ uriArg = << >>
  /\ link = Unset
  /\ resolved = Unset
  /\ again = Unset

\* transformGeoJSON not called.
GeoIdle == geoIn = Unset /\ geoOut = Unset

\* The raw RDF viewer as the document has it, hidden, and no download
\* started.
ViewerIdle ==
  /\ rdfViewer = [display |-> FALSE, title |-> "",
                  code |-> [kind |-> "none", value |-> ""]]
  /\ requests = << >>

\* The checks of the functions, not started.
FnIdle == ResolverIdle /\ ShortIdle /\ WktIdle /\ GeoIdle /\ ViewerIdle

\* The state the constructor leaves, on a page whose sections other than the
\* loading indicator are hidden; the indicator is as the document has it.
PageRest ==
  /\ pc = "boot"
  /\ resourceURI = Null
  /\ triples = << >>
  /\ types = << >>
  /\ geometryNode = Null
  /\ wktLiteral = Null
  /\ dom \in [loading : BOOLEAN, error : {FALSE}, properties : {FALSE},
              graph : {FALSE}, map : {FALSE}, seeAlso : {FALSE}]
  /\ errors = << >>
  /\ table = << >>
  /\ seeAlso = << >>
  /\ geojson = "none"
  /\ mapLayer = "none"
  /\ epsg = "none"
  /\ net = [prefixes |-> "none", describe |-> "none", graph |-> "none",
            wkt |-> "none", map |-> "none", related |-> "none"]
  /\ log = << >>

\* The same, with the prefix map as the script declares it: empty.
PageInit == PREFIXES = << >> /\ PageRest

\* The page before DOMContentLoaded, its loading indicator hidden.
PageIdle == PageInit /\ ~dom.loading

Host(h) == HTTP \o <<h>>

\* The page's origin: the production host, or another (local test) host.
Origins == {Host("d"), Host("l")}

\* Configured entity namespaces: the production origin, without and with a
\* trailing separator.
Namespaces == {Host("d"), Host("d") \o <<"/">>}

\* Request paths of testing mode: '/', a full URI's scheme prefix, a tail.
TestingPaths ==
  {<<"/">> \o pre \o t : pre \in {HTTP, HTTPS}, t \in SeqsUpTo(Alphabet, MaxTail)}

\* The other request paths: the empty path, and '/' followed by another
\* scheme prefix (or none) and a tail.
PlainPaths ==
  {<< >>} \cup {<<"/">> \o pre \o t : pre \in {<< >>, FTP, HTTPUpper},
                                     t \in SeqsUpTo(Alphabet, MaxPlainTail)}

Paths == TestingPaths \cup PlainPaths

\* ------------------------------------------------- resolver specification

InitResolve ==
  /\ origin \in Origins
  /\ entityNs = Host("d")
  /\ path \in Paths
  /\ FnIdle
  /\ PageIdle

\* A page load resolves its path.
Resolve ==
  /\ step = "start"
  /\ resolved' = extractURIFromPath(path, origin)
  /\ step' = "resolved"
  /\ UNCHANGED <<envVars, uriArg, link, again, pageVars, callVars>>

\* The resolved URI is requested again through the path '/' + URI.
ResolveAgain ==
  /\ step = "resolved"
  /\ resolved.kind = "string"
  /\ again' = extractURIFromPath(<<"/">> \o resolved.value, origin)
  /\ step' = "again"
  /\ UNCHANGED <<envVars, uriArg, link, resolved, pageVars, callVars>>

NextResolve == Resolve \/ ResolveAgain

SpecResolve == InitResolve /\ [][NextResolve]_vars

\* ----------------------------------------------------- link specification

\* Pages on which links are rendered.
StartPaths ==
  { <<"/", "x">>, <<"/", "x", "/", "x">>, <<"/">> \o Host("d") \o <<"/", "x">> }

\* URIs met while rendering: in the entity namespace's host or another host.
LinkURIs ==
  {h \o t : h \in {Host("d"), Host("e")}, t \in SeqsUpTo(Alphabet, MaxLinkTail)}

InitLink ==
  /\ origin \in Origins
  /\ entityNs \in Namespaces
  /\ path \in StartPaths
  /\ FnIdle
  /\ PageIdle

\* formatURI, formatValue and renderSeeAlso build the link of a URI.
MakeLink ==
  /\ step = "start"
  /\ \E u \in LinkURIs :
       /\ uriArg' = u
       /\ link' = makeLocalLink(u, entityNs, origin)
  /\ step' = "linked"
  /\ UNCHANGED <<envVars, resolved, again, pageVars, callVars>>

\* The user follows the local link: window.location.href = localLink.
FollowLink ==
  /\ step = "linked"
  /\ link.kind = "string"
  /\ LET t == HrefTarget(link.value, path)
     IN  IF t.kind = "left"
         THEN step' = "left" /\ path' = path
         ELSE step' = "navigated" /\ path' = t.value
  /\ UNCHANGED <<origin, entityNs, uriArg, link, resolved, again, pageVars, callVars>>

\* The page the link led to resolves its own path.
ResolveLinked ==
  /\ step = "navigated"
  /\ resolved' = extractURIFromPath(path, origin)
  /\ step' = "arrived"
  /\ UNCHANGED <<envVars, uriArg, link, again, pageVars, callVars>>

NextLink == MakeLink \/ FollowLink \/ ResolveLinked

SpecLink == InitLink /\ [][NextLink]_vars

\* ---------------------------------------------------- page-load pipeline

\* Longest DESCRIBE result.
MaxTriples == 2

\* The display reference system of the map.
DisplaySRID == 4326

\* The identifiers of commonProjections.
CommonProjections == {4326, 3857, 31370, 4258, 3035, 25832, 25833}

\* Request paths of the page loads: empty and root paths, production paths,
\* testing paths with well-formed and with malformed escapes.
PagePaths ==
  { << >>, <<"/">>, <<"/", "/">>,
    <<"/", "x">>,
    <<"/">> \o Host("d") \o <<"/", "x">>,
    <<"/">> \o Host("e") \o <<"%", "2", "F">>,
    <<"/">> \o Host("d") \o <<"/", "%">>,
    <<"/">> \o HTTPS \o <<"d", "/", "%", "2">> }

\* What the fetch of prefixes.json can deliver.
PrefixMaps ==
  { << >>,
    << [namespace |-> NS_RDF, prefix |-> <<"r", "d", "f">>],
       [namespace |-> NS_GSP, prefix |-> <<"g", "e", "o">>],
       [namespace |-> Host("d"), prefix |-> <<"d">>] >> }

PrefixResponses ==
  {[kind |-> k, map |-> << >>] : k \in {"networkError", "httpError", "undecodable"}}
    \cup {[kind |-> "ok", map |-> m] : m \in PrefixMaps}

\* The triples a DESCRIBE of uri can return.
TriplePool(uri) ==
  { Triple(uri, RDF_TYPE, NamedNode(Host("d") \o <<"/", "C">>)),
    Triple(uri, GSP_HAS_GEOMETRY, NamedNode(Host("d") \o <<"/", "g">>)),
    Triple(uri, RDFS_LABEL, Literal(<<"x">>, << >>, XSD_STRING)),
    Triple(uri, RDFS_LABEL, Literal(<<"y">>, <<"e", "n">>, RDF_LANGSTRING)),
    Triple(Host("e") \o <<"/", "o">>, RDF_TYPE, NamedNode(Host("e") \o <<"/", "K">>)) }

DescribeResponses(uri) ==
  {[kind |-> k, triples |-> << >>] : k \in {"networkError", "httpError", "parseError"}}
    \cup {[kind |-> "ok", triples |-> t] : t \in SeqsUpTo(TriplePool(uri), MaxTriples)}

\* A WKT literal, by what parseWKT and proj4 make of it: whether the geometry
\* text parses, the SRID found (none: << >>), whether proj4 can transform it.
WktLiterals ==
  {[parses |-> FALSE, srid |-> << >>, transforms |-> FALSE]}
    \cup {[parses |-> TRUE, srid |-> sr, transforms |-> TRUE] :
            sr \in {<< >>, <<0>>, <<4326>>, <<31370>>, <<9999>>}}
    \cup {[parses |-> TRUE, srid |-> <<31370>>, transforms |-> FALSE]}

NoLiteral == [parses |-> FALSE, srid |-> << >>, transforms |-> FALSE]

WktResponses ==
  {[kind |-> k, literal |-> NoLiteral] :
     k \in {"networkError", "httpError", "undecodable", "badShape", "empty"}}
    \cup {[kind |-> "ok", literal |-> l] : l \in WktLiterals}

RelatedResponses ==
  {[kind |-> k, resources |-> << >>] :
     k \in {"networkError", "httpError", "undecodable", "badShape"}}
    \cup {[kind |-> "ok", resources |-> r] :
            r \in {<< >>, <<Host("d") \o <<"/", "y">>, Host("e") \o <<"/", "z">>>>}}

\* The messages of showError.
NoURIMessage ==
  [text |-> "No URI specified. Please provide a resource URI in the path.",
   arg |-> << >>]
NoDataMessage(uri) == [text |-> "No data found for resource: ", arg |-> uri]
LoadFailedMessage(cause) == [text |-> "Failed to load resource: ", arg |-> <<cause>>]

\* error.message of what loadResource catches.
ErrorText(kind) ==
  CASE kind = "httpError" -> "SPARQL query failed: <statusText>"
    [] kind = "networkError" -> "<fetch error>"
    [] kind = "parseError" -> "<N3 syntax error>"

\* showError leaving the loading indicator as it is.
showError_KeepsLoading(d) == [d EXCEPT !.error = TRUE]

\* showError on the DOM d.
showError(d) == [d EXCEPT !.loading = FALSE, !.error = TRUE]

\* executeSPARQLQuery without the test of response.ok.
QueryThrows_IgnoreStatus(r) == r.kind \in {"networkError", "parseError"}

\* executeSPARQLQuery throws: fetch rejects, the status is not ok, or the
\* parser rejects the body.
QueryThrows(r) == r.kind \in {"networkError", "httpError", "parseError"}

\* loadResource without the test for an empty result.
NoTriples_Never(ts) == FALSE

\* loadResource's test for an empty result.
NoTriples(ts) == Len(ts) = 0

\* loadPrefixes falling back to built-in defaults when the load fails.
loadPrefixes_Defaults(old, r) ==
  IF r.kind = "ok" THEN r.map
  ELSE << [namespace |-> NS_RDF, prefix |-> <<"r", "d", "f">>],
          [namespace |-> NS_RDFS, prefix |-> <<"r", "d", "f", "s">>],
          [namespace |-> NS_GSP, prefix |-> <<"g", "s", "p">>] >>

\* loadPrefixes leaves PREFIXES alone unless the response is ok and decodes.
loadPrefixes(old, r) == IF r.kind = "ok" THEN r.map ELSE old

\* The end of loadResource: the loading indicator is hidden.
FinishLoad(lg, d, n) ==
  /\ pc' = "done"
  /\ log' = lg
  /\ dom' = [d EXCEPT !.loading = FALSE]
  /\ net' = n

\* loadSameClassResources is called with this.types = ty: it returns at once
\* without a type, and issues the same-class query otherwise.
EnterRelated(lg, d, n, ty) ==
  IF Len(ty) = 0 THEN FinishLoad(lg, d, n)
  ELSE /\ pc' = "awaitRelated"
       /\ log' = Append(lg, "relatedQuery")
       /\ dom' = d
       /\ net' = n

\* loadResource going from the graph to loadSameClassResources, without the
\* call of checkForGeometry.
EnterGeometry_Skipped(lg, d, n, gn, ty) == EnterRelated(lg, d, n, ty)

\* checkForGeometry is called with this.geometryNode = gn: it returns at once
\* without a geometry node, and issues the asWKT query otherwise.
EnterGeometry(lg, d, n, gn, ty) ==
  IF gn.kind = "null" THEN EnterRelated(lg, d, n, ty)
  ELSE /\ pc' = "awaitWkt"
       /\ log' = Append(lg, "geometryQuery")
       /\ dom' = d
       /\ net' = n

\* DOMContentLoaded: init starts and loadPrefixes issues its fetch.
DOMContentLoaded ==
  /\ pc = "boot"
  /\ pc' = "awaitPrefixes"
  /\ log' = Append(log, "loadPrefixes")
  /\ UNCHANGED <<envVars, fnVars, callVars, PREFIXES, resourceURI, triples, types,
                 geometryNode, wktLiteral, dom, errors, table, seeAlso,
                 geojson, mapLayer, epsg, net>>

\* The prefix fetch settles; init resolves the URI and, with a URI, starts
\* loadResource, which issues the DESCRIBE query.
PrefixesSettled ==
  /\ pc = "awaitPrefixes"
  /\ \E r \in PrefixResponses :
       /\ PREFIXES' = loadPrefixes(PREFIXES, r)
       /\ LET uri == extractURIFromPath(path, origin)
              n == [net EXCEPT !.prefixes = r.kind]
              lg == Append(log, "resolveURI")
          IN  /\ net' = n
              /\ CASE uri.kind = "URIError" ->
                        /\ pc' = "rejected"
                        /\ log' = lg
                        /\ UNCHANGED <<resourceURI, dom, errors>>
                   [] uri.kind = "null" ->
                        /\ pc' = "error"
                        /\ log' = lg
                        /\ resourceURI' = uri
                        /\ dom' = showError(dom)
                        /\ errors' = Append(errors, NoURIMessage)
                   [] uri.kind = "string" ->
                        /\ pc' = "awaitDescribe"
                        /\ log' = Append(lg, "describeQuery")
                        /\ resourceURI' = uri
                        /\ dom' = [dom EXCEPT !.loading = TRUE]
                        /\ UNCHANGED errors
  /\ UNCHANGED <<envVars, fnVars, callVars, triples, types, geometryNode, wktLiteral,
                 table, seeAlso, geojson, mapLayer, epsg>>

\* The DESCRIBE query settles and its body is parsed; loadResource shows an
\* error, or stores the triples, calls parseResource, renders and shows the
\* table, and calls initializeGraph when that is a function.
DescribeSettled ==
  /\ pc = "awaitDescribe"
  /\ \E r \in DescribeResponses(resourceURI.value) :
       IF QueryThrows(r)
       THEN /\ pc' = "error"
            /\ net' = [net EXCEPT !.describe = r.kind]
            /\ dom' = showError(dom)
            /\ errors' = Append(errors, LoadFailedMessage(ErrorText(r.kind)))
            /\ UNCHANGED <<triples, types, geometryNode, table, log>>
       ELSE IF NoTriples(r.triples)
       THEN /\ pc' = "error"
            /\ net' = [net EXCEPT !.describe = r.kind]
            /\ dom' = showError(dom)
            /\ errors' = Append(errors, NoDataMessage(resourceURI.value))
            /\ log' = Append(log, "parseTriples")
            /\ UNCHANGED <<triples, types, geometryNode, table>>
       ELSE LET ty == typesOf(r.triples)
                gn == geometryNodeOf(r.triples, geometryNode)
                d == [dom EXCEPT !.properties = TRUE]
                n == [net EXCEPT !.describe = r.kind]
                lg == log \o <<"parseTriples", "renderTable">>
            IN  /\ triples' = r.triples
                /\ types' = ty
                /\ geometryNode' = gn
                /\ table' = renderProperties(r.triples, resourceURI.value,
                                             PREFIXES, entityNs, origin)
                /\ UNCHANGED errors
                /\ \E isFunction \in BOOLEAN :
                     IF isFunction
                     THEN /\ pc' = "awaitGraph"
                          /\ log' = Append(lg, "renderGraph")
                          /\ dom' = d
                          /\ net' = n
                     ELSE EnterGeometry(lg, d, [n EXCEPT !.graph = "unavailable"],
                                        gn, ty)
  /\ UNCHANGED <<envVars, fnVars, callVars, PREFIXES, resourceURI, wktLiteral, seeAlso,
                 geojson, mapLayer, epsg>>

\* initializeGraph settles: it showed the graph section, or threw and was
\* caught; checkForGeometry is called next.
GraphSettled ==
  /\ pc = "awaitGraph"
  /\ \E drawn \in BOOLEAN :
       EnterGeometry(log, [dom EXCEPT !.graph = drawn],
                     [net EXCEPT !.graph = IF drawn THEN "ok" ELSE "failed"],
                     geometryNode, types)
  /\ UNCHANGED <<envVars, fnVars, callVars, PREFIXES, resourceURI, triples, types,
                 geometryNode, wktLiteral, errors, table, seeAlso, geojson,
                 mapLayer, epsg>>

\* The test of initializeMap for a transform: srid && srid !== 4326.
needsTransform(srid) ==
  srid # << >> /\ srid[1] # 0 /\ srid[1] # DisplaySRID

\* initializeMap on a literal: [geojson, layer, epsg, outcome].
initializeMap(l) ==
  IF ~l.parses
  THEN [geojson |-> "none", layer |-> "none", epsg |-> "none", outcome |-> "failed"]
  ELSE IF ~needsTransform(l.srid)
  THEN [geojson |-> "asParsed", layer |-> "asParsed", epsg |-> "none",
        outcome |-> "ok"]
  ELSE IF l.srid[1] \in CommonProjections
  THEN IF l.transforms
       THEN [geojson |-> "transformed", layer |-> "transformed", epsg |-> "none",
             outcome |-> "ok"]
       ELSE [geojson |-> "asParsed", layer |-> "none", epsg |-> "none",
             outcome |-> "failed"]
  ELSE [geojson |-> "asParsed", layer |-> "asParsed", epsg |-> "pending",
        outcome |-> "ok"]

\* WktSettled for a checkForGeometry without its try and catch: a failure
\* reaches the catch of loadResource.
WktSettled_Uncaught ==
  /\ pc = "awaitWkt"
  /\ \E r \in WktResponses :
       IF r.kind \notin {"ok", "empty"}
       THEN /\ pc' = "error"
            /\ dom' = showError(dom)
            /\ errors' = Append(errors, LoadFailedMessage("WKT query failed"))
            /\ net' = [net EXCEPT !.wkt = r.kind]
            /\ UNCHANGED <<wktLiteral, geojson, mapLayer, epsg, log>>
       ELSE IF r.kind = "empty"
       THEN /\ EnterRelated(log, dom, [net EXCEPT !.wkt = r.kind], types)
            /\ UNCHANGED <<wktLiteral, geojson, mapLayer, epsg, errors>>
       ELSE /\ wktLiteral' = r.literal
            /\ UNCHANGED errors
            /\ \E isFunction \in BOOLEAN :
                 IF isFunction
                 THEN LET m == initializeMap(r.literal)
                      IN  /\ geojson' = m.geojson
                          /\ mapLayer' = m.layer
                          /\ epsg' = m.epsg
                          /\ EnterRelated(Append(log, "renderMap"),
                                          [dom EXCEPT !.map = TRUE],
                                          [net EXCEPT !.wkt = "ok", !.map = m.outcome],
                                          types)
                 ELSE /\ UNCHANGED <<geojson, mapLayer, epsg>>
                      /\ EnterRelated(log, [dom EXCEPT !.map = TRUE],
                                      [net EXCEPT !.wkt = "ok", !.map = "unavailable"],
                                      types)
  /\ UNCHANGED <<envVars, fnVars, callVars, PREFIXES, resourceURI, triples, types,
                 geometryNode, table, seeAlso>>

\* The asWKT query settles: a failure is caught; a literal is displayed, the
\* map section is shown and initializeMap is called when it is a function.
\* loadSameClassResources is called next.
WktSettled ==
  /\ pc = "awaitWkt"
  /\ \E r \in WktResponses :
       IF r.kind # "ok"
       THEN /\ EnterRelated(log, dom, [net EXCEPT !.wkt = r.kind], types)
            /\ UNCHANGED <<wktLiteral, geojson, mapLayer, epsg>>
       ELSE /\ wktLiteral' = r.literal
            /\ \E isFunction \in BOOLEAN :
                 IF isFunction
                 THEN LET m == initializeMap(r.literal)
                      IN  /\ geojson' = m.geojson
                          /\ mapLayer' = m.layer
                          /\ epsg' = m.epsg
                          /\ EnterRelated(Append(log, "renderMap"),
                                          [dom EXCEPT !.map = TRUE],
                                          [net EXCEPT !.wkt = "ok", !.map = m.outcome],
                                          types)
                 ELSE /\ UNCHANGED <<geojson, mapLayer, epsg>>
                      /\ EnterRelated(log, [dom EXCEPT !.map = TRUE],
                                      [net EXCEPT !.wkt = "ok", !.map = "unavailable"],
                                      types)
  /\ UNCHANGED <<envVars, fnVars, callVars, PREFIXES, resourceURI, triples, types,
                 geometryNode, errors, table, seeAlso>>

\* The lookup of an unknown projection settles: on success the coordinates
\* of the geometry object are transformed; a failure is logged.
EpsgSettled ==
  /\ epsg = "pending"
  /\ \E ok \in BOOLEAN :
       IF ok THEN epsg' = "done" /\ geojson' = "transformed"
       ELSE epsg' = "failed" /\ geojson' = geojson
  /\ UNCHANGED <<envVars, fnVars, callVars, pc, PREFIXES, resourceURI, triples, types,
                 geometryNode, wktLiteral, dom, errors, table, seeAlso,
                 mapLayer, net, log>>

\* One item of the "See also" list.
seeAlsoItem(uri, typeURI, prefixes, ns, org) ==
  LET localLink == makeLocalLink(uri, ns, org)
  IN  [text |-> shortenURI(uri, prefixes),
       title |-> uri,
       href |-> IF localLink.kind = "string" THEN localLink.value ELSE uri,
       newTab |-> localLink.kind # "string",
       type |-> shortenURI(typeURI, prefixes)]

\* The same-class query settles: a failure is caught, a non-empty list is
\* rendered; loadResource then hides the loading indicator.
RelatedSettled ==
  /\ pc = "awaitRelated"
  /\ \E r \in RelatedResponses :
       LET n == [net EXCEPT !.related = r.kind]
       IN  IF r.kind = "ok" /\ Len(r.resources) > 0
           THEN /\ seeAlso' = [i \in 1..Len(r.resources) |->
                                 seeAlsoItem(r.resources[i], types[1], PREFIXES,
                                             entityNs, origin)]
                /\ FinishLoad(Append(log, "renderSeeAlso"),
                              [dom EXCEPT !.seeAlso = TRUE], n)
           ELSE /\ seeAlso' = seeAlso
                /\ FinishLoad(log, dom, n)
  /\ UNCHANGED <<envVars, fnVars, callVars, PREFIXES, resourceURI, triples, types,
                 geometryNode, wktLiteral, errors, table, geojson, mapLayer,
                 epsg>>

Init ==
  /\ origin \in Origins
  /\ entityNs = Host("d")
  /\ path \in PagePaths
  /\ FnIdle
  /\ PageInit

Next ==
  \/ DOMContentLoaded
  \/ PrefixesSettled
  \/ DescribeSettled
  \/ GraphSettled
  \/ WktSettled
  \/ EpsgSettled
  \/ RelatedSettled

Spec == Init /\ [][Next]_vars

\* Every response arrives and every resumed continuation runs.
FairSpec == Spec /\ WF_vars(Next)

\* ------------------------------------------------------- spatial literals

\* A literal is a sequence of lexical pieces: a tag 'SRID=' in either case,
\* the opening '<http://www.opengis.net/def/crs/EPSG/0/' of a CRS URI, groups
\* of decimal digits, ';', '>', a white-space character, a geometry text
\* that the WKT grammar accepts and a text that it rejects.
SridTags == {"SRID=", "srid="}
OgcOpen == "<http://www.opengis.net/def/crs/EPSG/0/"
DigitGroups == {"0", "9", "4326", "31370"}
Space == " "
PointText == "POINT(1 2)"
BadText == "POINT("

\* The value and the number of digits of a group.
GroupValue(g) ==
  CASE g = "0" -> 0 [] g = "9" -> 9 [] g = "4326" -> 4326 [] g = "31370" -> 31370
GroupLen(g) ==
  CASE g = "0" -> 1 [] g = "9" -> 1 [] g = "4326" -> 4 [] g = "31370" -> 5

Pow10(n) == CASE n = 1 -> 10 [] n = 4 -> 10000 [] n = 5 -> 100000

\* parseInt of a run of digit groups.
RECURSIVE parseInt(_)
parseInt(ds) ==
  IF ds = << >> THEN 0
  ELSE parseInt(SubSeq(ds, 1, Len(ds) - 1)) * Pow10(GroupLen(ds[Len(ds)]))
         + GroupValue(ds[Len(ds)])

\* String.prototype.trim.
trim(s) ==
  LET solid == {i \in 1..Len(s) : s[i] # Space}
  IN  IF solid = {} THEN << >>
      ELSE SubSeq(s, CHOOSE i \in solid : \A j \in solid : i <= j,
                     CHOOSE i \in solid : \A j \in solid : j <= i)

\* The length of the longest run of pieces of the set S in s from position k.
RunFrom(s, k, S) ==
  CHOOSE n \in 0..Len(s) :
    /\ \A i \in k..(k + n - 1) : i <= Len(s) /\ s[i] \in S
    /\ k + n > Len(s) \/ s[k + n] \notin S

NoMatch == [matched |-> FALSE, digits |-> << >>, rest |-> << >>]

\* wkt.match(/^SRID=(\d+);(.+)$/i): the groups of the match.
ewktMatch(s) ==
  LET n == RunFrom(s, 2, DigitGroups)
  IN  IF /\ Len(s) >= 1 /\ s[1] \in SridTags
         /\ n >= 1
         /\ Len(s) >= n + 3 /\ s[n + 2] = ";"
      THEN [matched |-> TRUE, digits |-> SubSeq(s, 2, n + 1),
            rest |-> SubSeq(s, n + 3, Len(s))]
      ELSE NoMatch

\* wkt.match(/^<http:\/\/www\.opengis\.net\/def\/crs\/EPSG\/0\/(\d+)>\s+(.+)$/i):
\* the groups of the match; '\s+' gives one character back when nothing else
\* is left for '(.+)'.
ogcMatch(s) ==
  LET n == RunFrom(s, 2, DigitGroups)
      k == RunFrom(s, n + 3, {Space})
  IN  IF /\ Len(s) >= 1 /\ s[1] = OgcOpen
         /\ n >= 1
         /\ Len(s) >= n + 2 /\ s[n + 2] = ">"
         /\ k >= 1
         /\ Len(s) >= n + 3 + k \/ k >= 2
      THEN [matched |-> TRUE, digits |-> SubSeq(s, 2, n + 1),
            rest |-> IF Len(s) >= n + 3 + k THEN SubSeq(s, n + 3 + k, Len(s))
                     ELSE <<Space>>]
      ELSE NoMatch

\* wktToGeoJSON: the geometry object of a text of the WKT grammar, or null.
wktToGeoJSON(text) == IF text = <<PointText>> THEN "Point" ELSE "null"

\* parseWKT: the geometry object and the SRID (none: << >>), and the text the
\* geometry was parsed from.
parseWKT(literal) ==
  LET wkt0 == trim(literal)
      e == ewktMatch(wkt0)
      srid1 == IF e.matched THEN <<parseInt(e.digits)>> ELSE << >>
      wkt1 == IF e.matched THEN e.rest ELSE wkt0
      o == ogcMatch(wkt1)
      srid2 == IF o.matched THEN <<parseInt(o.digits)>> ELSE srid1
      wkt2 == IF o.matched THEN o.rest ELSE wkt1
  IN  [kind |-> "parsed", geojson |-> wktToGeoJSON(wkt2), srid |-> srid2,
       wkt |-> wkt2]

\* The digits of the SRIDs of the literals.
SridDigits ==
  { <<"0">>, <<"9">>, <<"4326">>, <<"31370">>, <<"0", "4326">>, <<"4326", "0">>,
    <<"0", "0">> }

EwktHeads ==
  {<< >>, <<"SRID=", ";">>}
    \cup {<<t>> \o d \o <<";">> : t \in SridTags, d \in SridDigits}

OgcHeads ==
  {<< >>, <<OgcOpen, ">", Space>>}
    \cup {<<OgcOpen>> \o d \o <<">">> \o sp :
            d \in SridDigits, sp \in {<< >>, <<Space>>, <<Space, Space>>}}

\* The literals of the asWKT values: white space, the two heads in either
\* order, each present or not, and a geometry text.
SpatialLiterals ==
  {lead \o h \o body \o lead :
     lead \in {<< >>, <<Space>>},
     h \in {e \o o : e \in EwktHeads, o \in OgcHeads}
            \cup {o \o e : e \in EwktHeads, o \in OgcHeads},
     body \in {<< >>, <<PointText>>, <<BadText>>}}

InitWkt ==
  /\ origin = Host("d")
  /\ entityNs = Host("d")
  /\ path = <<"/", "x">>
  /\ ResolverIdle
  /\ ShortIdle
  /\ wktText \in SpatialLiterals
  /\ parsed = Unset
  /\ transformCalled = FALSE
  /\ GeoIdle
  /\ ViewerIdle
  /\ PageIdle

\* initializeMap is called on the literal: parseWKT, the return without a
\* geometry object, and the test for a transform.
CallInitializeMap ==
  /\ step = "start"
  /\ LET r == parseWKT(wktText)
     IN  /\ parsed' = r
         /\ transformCalled' = (r.geojson # "null" /\ needsTransform(r.srid))
  /\ step' = "mapped"
  /\ UNCHANGED <<envVars, uriArg, link, resolved, again, pageVars, shortVars,
                 wktText, geoVars, viewerVars>>

NextWkt == CallInitializeMap

SpecWkt == InitWkt /\ [][NextWkt]_vars


\* ------------------------------------------------------ coordinate trees

\* Most elements of a coordinate array, and most members of a collection.
MaxFanout == 2

\* A coordinate pair [x, y], with the number of times it went through the
\* forward transform; an array of pairs or of arrays.
Pair(n) == [tag |-> "pair", times |-> n, items |-> << >>]
List(xs) == [tag |-> "list", times |-> 0, items |-> xs]

\* The sequences of 1 to n elements of S.
SeqsFrom1(S, n) == SeqsUpTo(S, n) \ {<< >>}

\* The coordinate arrays of nesting depth 1, 2 and 3, and the empty array.
Depth1 == {List(xs) : xs \in SeqsFrom1({Pair(0)}, MaxFanout)}
Depth2 == {List(xs) : xs \in SeqsFrom1(Depth1, MaxFanout)}
Depth3 == {List(xs) : xs \in SeqsFrom1(Depth2, MaxFanout)}
EmptyArray == List(<< >>)

\* A geometry object with a coordinates member.
Geometry(type, coords) ==
  [type |-> type, hasCoordinates |-> TRUE, coordinates |-> coords,
   geometries |-> << >>]

\* A GeometryCollection: a geometries member and no coordinates member.
Collection(members) ==
  [type |-> "GeometryCollection", hasCoordinates |-> FALSE,
   coordinates |-> EmptyArray, geometries |-> members]

SimpleGeometries ==
  {Geometry("Point", Pair(0))}
    \cup {Geometry("LineString", c) : c \in Depth1 \cup {EmptyArray}}

\* What wktToGeoJSON returns for the geometry types of the grammar.
GeometryObjects ==
  SimpleGeometries
    \cup {Geometry("MultiPoint", c) : c \in Depth1 \cup {EmptyArray}}
    \cup {Geometry(t, c) : t \in {"Polygon", "MultiLineString"},
                           c \in Depth2 \cup {EmptyArray}}
    \cup {Geometry("MultiPolygon", c) : c \in Depth3 \cup {EmptyArray}}
    \cup {Collection(ms) : ms \in SeqsUpTo(SimpleGeometries, MaxFanout)}

\* transform.forward on a pair.
forward(p) == [p EXCEPT !.times = @ + 1]

\* transformCoords: a pair (typeof coords[0] === 'number') goes through
\* forward, every other array is mapped element by element.
RECURSIVE transformCoords(_)
transformCoords(coords) ==
  IF coords.tag = "pair" THEN forward(coords)
  ELSE List([i \in 1..Len(coords.items) |-> transformCoords(coords.items[i])])

\* transformGeoJSON: nothing without a coordinates member.
transformGeoJSON(geometry) ==
  IF ~geometry.hasCoordinates THEN geometry
  ELSE [geometry EXCEPT !.coordinates = transformCoords(@)]

InitTransform ==
  /\ origin = Host("d")
  /\ entityNs = Host("d")
  /\ path = <<"/", "x">>
  /\ ResolverIdle
  /\ ShortIdle
  /\ WktIdle
  /\ geoIn \in {[kind |-> "geometry", value |-> g] : g \in GeometryObjects}
  /\ geoOut = Unset
  /\ ViewerIdle
  /\ PageIdle

\* transformCoordinates calls transformGeoJSON on the geometry object.
Transform ==
  /\ step = "start"
  /\ geoOut' = [kind |-> "geometry", value |-> transformGeoJSON(geoIn.value)]
  /\ step' = "transformed"
  /\ UNCHANGED <<envVars, uriArg, link, resolved, again, pageVars, shortVars,
                 wktVars, geoIn, viewerVars>>

NextTransform == Transform

SpecTransform == InitTransform /\ [][NextTransform]_vars

\* ------------------------------------------------ shortener specification

\* Longest URI handed to shortenURI.
MaxUriLen == 3

\* Longest namespace of a prefix map entry.
MaxNsLen == 2

\* Most entries of a prefix map.
MaxEntries == 2

\* The characters of the URIs, namespaces and prefixes of these checks.
ShortAlphabet == {"a", ":"}

PrefixNames == {<<"a">>, <<"p">>}

\* The entries a prefix map can hold.
PrefixEntries ==
  {[namespace |-> n, prefix |-> q] :
     n \in SeqsUpTo(ShortAlphabet, MaxNsLen), q \in PrefixNames}

\* Object.entries(PREFIXES): the entries in the object's own order, each
\* namespace being a key of the object and so occurring once.
EntryLists ==
  {m \in SeqsUpTo(PrefixEntries, MaxEntries) :
     \A i, j \in 1..Len(m) : i # j => m[i].namespace # m[j].namespace}

InitShorten ==
  /\ origin = Host("d")
  /\ entityNs = Host("d")
  /\ path = <<"/", "x">>
  /\ step = "start"
  /\ uriArg \in SeqsUpTo(ShortAlphabet, MaxUriLen)
  /\ link = Unset
  /\ resolved = Unset
  /\ again = Unset
  /\ ShortIdle
  /\ WktIdle
  /\ GeoIdle
  /\ ViewerIdle
  /\ PREFIXES \in EntryLists
  /\ PageRest
  /\ ~dom.loading

\* formatURI, formatValue and renderSeeAlso shorten a URI.
Shorten ==
  /\ step = "start"
  /\ shortened' = Str(shortenURI(uriArg, PREFIXES))
  /\ step' = "shortened"
  /\ UNCHANGED <<envVars, uriArg, link, resolved, again, pageVars, reshortened, wktVars,
                 geoVars, viewerVars>>

\* ShortenAgain handing the shortened string back untouched.
ShortenAgain_Skipped ==
  /\ step = "shortened"
  /\ reshortened' = shortened
  /\ step' = "reshortened"
  /\ UNCHANGED <<envVars, uriArg, link, resolved, again, pageVars, shortened, wktVars,
                 geoVars, viewerVars>>

\* The shortened string is shortened again.
ShortenAgain ==
  /\ step = "shortened"
  /\ reshortened' = Str(shortenURI(shortened.value, PREFIXES))
  /\ step' = "reshortened"
  /\ UNCHANGED <<envVars, uriArg, link, resolved, again, pageVars, shortened, wktVars,
                 geoVars, viewerVars>>

NextShorten == Shorten \/ ShortenAgain

SpecShorten == InitShorten /\ [][NextShorten]_vars

\* ----------------------------------------------------------- raw RDF viewer

\* Most downloads started on one page.
MaxClicks == 3

\* The formats of setupRDFFormatLinks: the Accept header and the label.
Formats ==
  { [accept |-> "text/turtle", label |-> "Turtle"],
    [accept |-> "application/rdf+xml", label |-> "RDF/XML"],
    [accept |-> "application/ld+json", label |-> "JSON-LD"] }

\* What rdf-code holds: the placeholder, the body served for an Accept
\* header, or the message of a failed download of a label.
LoadingText == [kind |-> "loading", value |-> ""]
BodyText(accept) == [kind |-> "body", value |-> accept]
FetchErrorText(label) == [kind |-> "error", value |-> label]

\* setupRDFFormatLinks has run: init calls it once the URI is resolved.
LinksReady == resourceURI.kind = "string"

\* The content of request i is written to rdf-code and the request is over.
WriteCode(i, text) ==
  /\ rdfViewer' = [rdfViewer EXCEPT !.code = text]
  /\ requests' = [requests EXCEPT ![i].stage = "done"]

\* A format link is clicked: showRDFFormat sets the title and the
\* placeholder, shows the viewer and issues its fetch.
showRDFFormat ==
  /\ LinksReady
  /\ Len(requests) < MaxClicks
  /\ \E fmt \in Formats :
       /\ rdfViewer' = [display |-> TRUE, title |-> fmt.label, code |-> LoadingText]
       /\ requests' = Append(requests, [accept |-> fmt.accept, label |-> fmt.label,
                                        stage |-> "fetch"])
  /\ UNCHANGED <<envVars, fnVars, pageVars, shortVars, wktVars, geoVars>>

\* The fetch of one download settles: with an ok response showRDFFormat
\* awaits the body; a rejection or another status is caught and its
\* message written to rdf-code.
FetchSettled ==
  /\ \E i \in 1..Len(requests) :
       /\ requests[i].stage = "fetch"
       /\ \E outcome \in {"ok", "notOk", "rejected"} :
            IF outcome = "ok"
            THEN /\ requests' = [requests EXCEPT ![i].stage = "body"]
                 /\ UNCHANGED rdfViewer
            ELSE WriteCode(i, FetchErrorText(requests[i].label))
  /\ UNCHANGED <<envVars, fnVars, pageVars, shortVars, wktVars, geoVars>>

\* The body of one download settles: its text is written to rdf-code, or
\* the failure is caught and its message written.
BodySettled ==
  /\ \E i \in 1..Len(requests) :
       /\ requests[i].stage = "body"
       /\ \E read \in BOOLEAN :
            WriteCode(i, IF read THEN BodyText(requests[i].accept)
                         ELSE FetchErrorText(requests[i].label))
  /\ UNCHANGED <<envVars, fnVars, pageVars, shortVars, wktVars, geoVars>>

\* The close button of the viewer is clicked.
CloseViewer ==
  /\ LinksReady
  /\ rdfViewer.display
  /\ rdfViewer' = [rdfViewer EXCEPT !.display = FALSE]
  /\ UNCHANGED <<envVars, fnVars, pageVars, shortVars, wktVars, geoVars, requests>>

\* A page of the production host, from its construction up to the DESCRIBE
\* query of loadResource, with the clicks on its format links.
InitViewer ==
  /\ origin = Host("d")
  /\ entityNs = Host("d")
  /\ path = <<"/", "x">>
  /\ FnIdle
  /\ PageInit

NextViewer ==
  \/ DOMContentLoaded
  \/ PrefixesSettled
  \/ showRDFFormat
  \/ FetchSettled
  \/ BodySettled
  \/ CloseViewer

SpecViewer == InitViewer /\ [][NextViewer]_vars

\* ------------------------------------------------------- resolver claims

\* The text of a request path after its leading separator.
Rem(p) == IF p = << >> THEN << >> ELSE Tail(p)

\* p is a literal prefix of s.
IsPrefix(p, s) == \E n \in 0..Len(s) : SubSeq(s, 1, n) = p

\* s with its first n characters removed.
Drop(s, n) == [i \in 1..(Len(s) - n) |-> s[i + n]]

IsTesting(rem) == IsPrefix(HTTP, rem) \/ IsPrefix(HTTPS, rem)

Chars(s) == {s[i] : i \in 1..Len(s)}

Malformed == <<"<malformed>">>

\* Percent-decoding by structure: the first character, or the first escape,
\* then the rest.  An escape is '%' and two hexadecimal digits of an ASCII
\* byte; anything else after '%' makes the text malformed.
RECURSIVE PercentDecode(_)
PercentDecode(s) ==
  IF s = << >> THEN << >>
  ELSE IF Head(s) # "%"
       THEN LET rest == PercentDecode(Tail(s))
            IN  IF rest = Malformed THEN Malformed ELSE <<Head(s)>> \o rest
  ELSE IF Len(s) < 3 \/ HexVal(s[2]) < 0 \/ HexVal(s[3]) < 0 \/ HexVal(s[2]) > 7
       THEN Malformed
  ELSE LET rest == PercentDecode(Drop(s, 3))
       IN  IF rest = Malformed THEN Malformed
           ELSE <<ByteChar(16 * HexVal(s[2]) + HexVal(s[3]))>> \o rest

C2_Original ==
  (step \in {"resolved", "again"} /\ Rem(path) # << >> /\ ~IsTesting(Rem(path))) =>
    resolved = Str(origin \o <<"/">> \o Rem(path))

\* C2 (amended): for every non-empty text p after '/' that is not the single
\* character '/' and does not start with 'http://' or 'https://', the
\* resolved URI is base origin + '/' + p, p verbatim; for p = '/' there is no
\* URI.
C2_ProductionVerbatim ==
  (step \in {"resolved", "again"} /\ Rem(path) # << >> /\ ~IsTesting(Rem(path))) =>
    resolved = IF Rem(path) = <<"/">> THEN Null
               ELSE Str(origin \o <<"/">> \o Rem(path))

\* A path with another scheme prefix and an escape was resolved undecoded.
C2_Witness ==
  /\ step = "resolved"
  /\ IsPrefix(FTP, Rem(path)) \/ IsPrefix(HTTPUpper, Rem(path))
  /\ Drop(Rem(path), Len(Rem(path)) - 3) = <<"%", "2", "5">>
  /\ resolved = Str(origin \o <<"/">> \o Rem(path))

\* C4: makeLocalLink returns a link exactly for the URIs that start with the
\* entity namespace; with the origin equal to the namespace the link is the
\* URI without the namespace, or '/' when nothing is left; with another
\* origin it is '/' followed by the whole URI.
C4_LocalLink ==
  step # "start" =>
    /\ link.kind = "string" <=> IsPrefix(entityNs, uriArg)
    /\ link.kind = "null" <=> ~IsPrefix(entityNs, uriArg)
    /\ (IsPrefix(entityNs, uriArg) /\ origin = entityNs) =>
         link.value = IF Drop(uriArg, Len(entityNs)) = << >> THEN <<"/">>
                      ELSE Drop(uriArg, Len(entityNs))
    /\ (IsPrefix(entityNs, uriArg) /\ origin # entityNs) =>
         link.value = <<"/">> \o uriArg

\* The namespace itself was linked from a page of the production origin.
C4_Witness ==
  /\ step = "linked"
  /\ uriArg = entityNs
  /\ origin = entityNs
  /\ link = Str(<<"/">>)

\* C5 as stated: following the link of a local URI u and resolving the path
\* of the page it leads to yields u again, in both modes.
C5_RoundTrip ==
  step = "arrived" => resolved = Str(uriArg)

\* ------------------------------------------------------- pipeline claims

Has(lg, e) == \E i \in 1..Len(lg) : lg[i] = e

\* The steps of a load that follow the DESCRIBE query and its parse.
LaterSteps ==
  {"renderTable", "renderGraph", "geometryQuery", "renderMap", "relatedQuery",
   "renderSeeAlso"}

TransportOrParseFailure == {"networkError", "httpError", "parseError"}

\* C3: with an empty path or the path '/', resolution yields no URI and the
\* load ends there: the 'No URI specified' error is shown, and neither the
\* DESCRIBE query nor any later step is ever started.
C3_NoURITerminal ==
  (path \in {<< >>, <<"/">>} /\ pc \notin {"boot", "awaitPrefixes"}) =>
    /\ pc = "error"
    /\ resourceURI = Null
    /\ errors = <<NoURIMessage>>
    /\ dom.error /\ ~dom.loading /\ ~dom.properties
    /\ log = <<"loadPrefixes", "resolveURI">>
    /\ net.describe = "none"
    /\ ~ENABLED Next

\* The load of the root path has shown its error.
C3_Witness ==
  /\ path = <<"/">>
  /\ pc = "error"
  /\ errors = <<NoURIMessage>>

\* C6: a DESCRIBE response with zero triples ends the load with the 'No data
\* found for resource' message, which differs from the 'Failed to load
\* resource' message of a transport or parse failure; it is never reported
\* as such a failure.
C6_EmptyResultDistinct ==
  /\ (net.describe = "ok" /\ triples = << >>) =>
       /\ pc = "error"
       /\ errors = <<NoDataMessage(resourceURI.value)>>
       /\ dom.error /\ ~dom.properties
       /\ ~ENABLED Next
  /\ net.describe \in TransportOrParseFailure =>
       /\ Len(errors) = 1
       /\ errors[1].text = "Failed to load resource: "
       /\ errors[1].text # NoDataMessage(resourceURI.value).text

\* A DESCRIBE response without triples was reported as 'No data found'.
C6_Witness ==
  /\ net.describe = "ok"
  /\ triples = << >>
  /\ pc = "error"
  /\ errors[1].text = "No data found for resource: "

\* C7: when the DESCRIBE request fails in transport or its body does not
\* parse, the load ends in the error state with exactly one message, the
\* load-failure message; no later step is started and the property table is
\* never shown.
C7_FirstFailureWins ==
  net.describe \in TransportOrParseFailure =>
    /\ pc = "error"
    /\ errors = <<LoadFailedMessage(ErrorText(net.describe))>>
    /\ dom.error /\ ~dom.loading
    /\ ~dom.properties /\ ~dom.graph /\ ~dom.map /\ ~dom.seeAlso
    /\ table = << >>
    /\ \A e \in LaterSteps : ~Has(log, e)
    /\ ~ENABLED Next

\* A malformed body ended the load with the load-failure message.
C7_Witness ==
  /\ net.describe = "parseError"
  /\ pc = "error"
  /\ Len(errors) = 1

GeometryFailed ==
  \/ net.wkt \in {"networkError", "httpError", "undecodable", "badShape"}
  \/ net.map = "failed"

RelatedFailed ==
  net.related \in {"networkError", "httpError", "undecodable", "badShape"}

\* The part of C8 that holds in every state.
C8_Swallowed ==
  (GeometryFailed \/ RelatedFailed) =>
    /\ pc \in {"awaitRelated", "done"}
    /\ errors = << >> /\ ~dom.error
    /\ dom.properties
    /\ Len(table) = Cardinality({triples[i].predicate :
                                   i \in {j \in 1..Len(triples) :
                                            triples[j].subject = resourceURI.value}})
    /\ (GeometryFailed /\ Len(types) > 0) =>
         Has(log, "relatedQuery") /\ (pc = "done" => net.related # "none")
    /\ (RelatedFailed /\ geometryNode # Null) =>
         Has(log, "geometryQuery") /\ net.wkt # "none"

\* C8: a failure of the geometry check or of the related lookup never puts
\* the load in the error state; the other of the two steps still runs, and
\* the load reaches Done with the property table displayed.
C8_BestEffortNeverFails ==
  /\ [](C8_Swallowed)
  /\ (GeometryFailed \/ RelatedFailed) ~> (pc = "done" /\ dom.properties)

\* Both best-effort steps failed and the load is done.
C8_Witness ==
  /\ GeometryFailed
  /\ RelatedFailed
  /\ pc = "done"
  /\ dom.properties

\* No request of the pipeline is outstanding and no continuation is due.
Stopped ==
  pc \notin {"boot", "awaitPrefixes", "awaitDescribe", "awaitGraph", "awaitWkt",
             "awaitRelated"}

\* C9 as stated: every load that has stopped is in Done or in Error, with the
\* content or an error message shown, whatever the request path.
C9_LoadEndsDoneOrError ==
  Stopped =>
    /\ pc \in {"done", "error"}
    /\ dom.properties \/ dom.error

PrefixFailed == net.prefixes \in {"networkError", "httpError", "undecodable"}

\* Every anchor of the table and of the "See also" list shows its whole URI.
DisplayedInFull ==
  /\ \A r \in 1..Len(table) :
       /\ table[r].cell.text = table[r].predicate
       /\ \A v \in 1..Len(table[r].values) :
            table[r].values[v].title # << >> =>
              table[r].values[v].text = table[r].values[v].title
  /\ \A i \in 1..Len(seeAlso) :
       seeAlso[i].text = seeAlso[i].title /\ seeAlso[i].type = types[1]

\* C10: when the load of the prefix map fails, the prefix map stays empty,
\* the load goes on to resolve the URI, to query and to render, every URI is
\* displayed in full, and an error is shown only for a missing URI or for
\* the outcome of the DESCRIBE query.
C10_PrefixFailureDegrades ==
  PrefixFailed =>
    /\ PREFIXES = << >>
    /\ Has(log, "resolveURI")
    /\ resourceURI.kind = "string" => Has(log, "describeQuery")
    /\ (net.describe = "ok" /\ triples # << >>) =>
         /\ dom.properties
         /\ Len(table) > 0 \/ \A i \in 1..Len(triples) :
                                triples[i].subject # resourceURI.value
    /\ DisplayedInFull
    /\ pc = "error" =>
         \/ resourceURI = Null
         \/ net.describe \in TransportOrParseFailure
         \/ net.describe = "ok" /\ triples = << >>

\* After a failed prefix load the page is done, with a table and a "See
\* also" list.
C10_Witness ==
  /\ PrefixFailed
  /\ pc = "done"
  /\ Len(table) > 0
  /\ Len(seeAlso) > 0

\* ------------------------------------------------------ shortener claims

\* The entries of the prefix map whose namespace is a string-prefix of u.
Matching(u) == {i \in 1..Len(PREFIXES) : IsPrefix(PREFIXES[i].namespace, u)}

\* The first of them in the map's entry order.
FirstMatching(u) == CHOOSE i \in Matching(u) : \A j \in Matching(u) : i <= j

\* The prefixed name that entry i gives u.
PrefixedBy(i, u) ==
  PREFIXES[i].prefix \o <<":">> \o Drop(u, Len(PREFIXES[i].namespace))

\* C11 as stated: the result is the prefixed name of the first entry, in
\* entry order, whose namespace is a string-prefix of the URI, and it is the
\* URI unchanged if and only if no namespace of the map is a string-prefix.
C11_Original ==
  step \in {"shortened", "reshortened"} =>
    /\ Matching(uriArg) # {} =>
         shortened = Str(PrefixedBy(FirstMatching(uriArg), uriArg))
    /\ shortened = Str(uriArg) <=> Matching(uriArg) = {}

\* C11 (amended): the result is the prefixed name of the first entry, in
\* entry order, whose namespace is a string-prefix of the URI, and the URI
\* unchanged when there is none; the result equals the URI exactly when no
\* namespace matches or the first matching namespace is its own prefix
\* followed by ':'.
C11_FirstMatch ==
  step \in {"shortened", "reshortened"} =>
    /\ Matching(uriArg) # {} =>
         shortened = Str(PrefixedBy(FirstMatching(uriArg), uriArg))
    /\ Matching(uriArg) = {} => shortened = Str(uriArg)
    /\ shortened = Str(uriArg) <=>
         \/ Matching(uriArg) = {}
         \/ LET e == PREFIXES[FirstMatching(uriArg)]
            IN  e.namespace = e.prefix \o <<":">>

\* Two entries match the URI and give different names; the first was used.
C11_Witness ==
  /\ step = "shortened"
  /\ Cardinality(Matching(uriArg)) = 2
  /\ PrefixedBy(1, uriArg) # PrefixedBy(2, uriArg)
  /\ shortened = Str(PrefixedBy(1, uriArg))

\* The matching entry with the longest namespace. Two matching namespaces of
\* one length are the same string, and a namespace occurs once in the map.
LongestMatching(u) ==
  CHOOSE i \in Matching(u) : \A j \in Matching(u) :
    Len(PREFIXES[j].namespace) <= Len(PREFIXES[i].namespace)

\* C19 as stated: when two or more namespaces of the map are string-prefixes
\* of the URI, the prefix of the longest of them is used, whatever the order
\* of the entries.
C19_Original ==
  (step \in {"shortened", "reshortened"} /\ Cardinality(Matching(uriArg)) >= 2) =>
    shortened = Str(PrefixedBy(LongestMatching(uriArg), uriArg))

\* C19 (amended): when two or more namespaces of the map are string-prefixes
\* of the URI, the entry order decides: the entry listed before every other
\* matching entry is used, so a shorter namespace listed before a longer one
\* masks it, and the longest namespace is used only where it is listed first
\* or gives the same name.
C19_EntryOrderDecides ==
  (step \in {"shortened", "reshortened"} /\ Cardinality(Matching(uriArg)) >= 2) =>
    \A i \in Matching(uriArg) :
      /\ (\A j \in Matching(uriArg) : i <= j) =>
           shortened = Str(PrefixedBy(i, uriArg))
      /\ (\E j \in Matching(uriArg) :
            j < i /\ PrefixedBy(j, uriArg) # PrefixedBy(i, uriArg)) =>
           (shortened # Str(PrefixedBy(i, uriArg))
              \/ \E k \in Matching(uriArg) :
                   k < i /\ PrefixedBy(k, uriArg) = PrefixedBy(i, uriArg))

\* A shorter namespace is listed before a longer one it is a prefix of, both
\* match the URI, and the shorter one's prefix was used.
C19_Witness ==
  /\ step = "shortened"
  /\ Len(PREFIXES) = 2
  /\ Matching(uriArg) = {1, 2}
  /\ Len(PREFIXES[1].namespace) < Len(PREFIXES[2].namespace)
  /\ IsPrefix(PREFIXES[1].namespace, PREFIXES[2].namespace)
  /\ PREFIXES[1].namespace # << >>
  /\ shortened = Str(PrefixedBy(1, uriArg))
  /\ shortened # Str(PrefixedBy(2, uriArg))

\* C20 as stated: shortening the already-shortened string returns it
\* unchanged, the shortened form matching no namespace of the map.
C20_Original ==
  step = "reshortened" =>
    /\ reshortened = shortened
    /\ Matching(shortened.value) = {}

\* C20 (amended): shortening the already-shortened string returns it
\* unchanged whenever the shortened form matches no namespace of the map;
\* where it matches one, it is shortened again by the first matching entry,
\* and comes back unchanged only if that namespace is its own prefix
\* followed by ':'.
C20_IdempotentUnlessMatching ==
  step = "reshortened" =>
    /\ Matching(shortened.value) = {} => reshortened = shortened
    /\ Matching(shortened.value) # {} =>
         /\ reshortened
              = Str(PrefixedBy(FirstMatching(shortened.value), shortened.value))
         /\ reshortened = shortened <=>
              LET e == PREFIXES[FirstMatching(shortened.value)]
              IN  e.namespace = e.prefix \o <<":">>

\* A URI was shortened to a prefixed name that matches no namespace, and the
\* second shortening returned that name unchanged.
C20_Witness ==
  /\ step = "reshortened"
  /\ Matching(uriArg) # {}
  /\ shortened # Str(uriArg)
  /\ Matching(shortened.value) = {}
  /\ reshortened = shortened

\* ------------------------------------------------- spatial literal claims

\* C12 as stated: the formats are tried in the order EWKT, OGC CRS URI,
\* plain WKT and the first match wins: an EWKT literal gives the SRID of its
\* digits and its rest as the geometry text, nothing more stripped from it;
\* the OGC form is considered only when EWKT does not match; a literal with
\* neither prefix has no SRID.
C12_FirstMatchWins ==
  step = "mapped" =>
    LET w == trim(wktText)
        e == ewktMatch(w)
        o == ogcMatch(w)
    IN  /\ e.matched =>
             parsed.srid = <<parseInt(e.digits)>> /\ parsed.wkt = e.rest
        /\ (~e.matched /\ o.matched) =>
             parsed.srid = <<parseInt(o.digits)>> /\ parsed.wkt = o.rest
        /\ (~e.matched /\ ~o.matched) =>
             parsed.srid = << >> /\ parsed.wkt = w

\* --------------------------------------------------------- ordering claims

\* The steps of a load in the order of the pipeline.
StepOrder ==
  <<"loadPrefixes", "resolveURI", "describeQuery", "parseTriples",
    "renderTable", "renderGraph", "geometryQuery", "renderMap", "relatedQuery",
    "renderSeeAlso">>

Rank(e) == CHOOSE i \in 1..Len(StepOrder) : StepOrder[i] = e

RenderSteps == {"renderTable", "renderGraph", "renderMap", "renderSeeAlso"}

\* C13: the steps of one load start in the order of the pipeline, each at
\* most once and each after the one before it has settled: no rendering step
\* before the DESCRIBE response is parsed, the geometry query after the graph
\* has settled, the related query after the geometry check has completed.
C13_LinearPipeline ==
  /\ \A i, j \in 1..Len(log) : i < j => Rank(log[i]) < Rank(log[j])
  /\ Has(log, "resolveURI") => net.prefixes # "none"
  /\ Has(log, "describeQuery") =>
       Has(log, "resolveURI") /\ resourceURI.kind = "string"
  /\ Has(log, "parseTriples") => net.describe = "ok"
  /\ \A e \in RenderSteps :
       Has(log, e) =>
         net.describe = "ok" /\ Has(log, "parseTriples") /\ triples # << >>
  /\ dom.properties \/ dom.graph \/ dom.map \/ dom.seeAlso =>
       Has(log, "parseTriples")
  /\ Has(log, "renderGraph") => Has(log, "renderTable")
  /\ Has(log, "geometryQuery") =>
       /\ Has(log, "renderTable")
       /\ net.graph # "none"
  /\ Has(log, "renderMap") => net.wkt = "ok"
  /\ Has(log, "relatedQuery") =>
       /\ net.graph # "none"
       /\ geometryNode # Null => Has(log, "geometryQuery") /\ net.wkt # "none"
       /\ Has(log, "renderMap") => net.map # "none"
  /\ Has(log, "renderSeeAlso") => net.related = "ok"

\* A load ran every step of the pipeline.
C13_Witness ==
  /\ pc = "done"
  /\ log = StepOrder

\* --------------------------------------------------------- geometry claims

\* C14 as stated: for an SRID outside the built-in table the transform is
\* applied only after the lookup of the projection has completed, and once
\* the lookup has succeeded the geometry on the map is the transformed one,
\* never the one with the source coordinates.
C14_EventuallyTransformed ==
  /\ epsg = "pending" => geojson = "asParsed"
  /\ epsg = "done" => geojson = "transformed" /\ mapLayer = "transformed"

\* C15 as stated: for a literal with a geometry, initializeMap attempts a
\* transform if and only if the parsed SRID is non-null and differs from the
\* identifier 4326 of the display reference system, whatever its digits.
C15_TransformIff ==
  (step = "mapped" /\ parsed.geojson # "null") =>
    (transformCalled <=> (parsed.srid # << >> /\ parsed.srid[1] # DisplaySRID))

\* The pairs of a coordinate array.
RECURSIVE PairsOf(_)
PairsOf(c) ==
  IF c.tag = "pair" THEN {c}
  ELSE UNION {PairsOf(c.items[i]) : i \in 1..Len(c.items)}

\* The coordinate array with every pair as it was before any transform.
RECURSIVE Untransformed(_)
Untransformed(c) ==
  IF c.tag = "pair" THEN Pair(0)
  ELSE List([i \in 1..Len(c.items) |-> Untransformed(c.items[i])])

\* The coordinate arrays of a geometry object: its own, or its members'.
ArraysOf(g) ==
  IF g.type = "GeometryCollection"
  THEN {g.geometries[i].coordinates : i \in 1..Len(g.geometries)}
  ELSE {g.coordinates}

\* C16 as stated: transformGeoJSON transforms every coordinate pair of the
\* geometry exactly once and keeps the nesting depth and the element counts
\* of its arrays, for Point, LineString, Polygon, their MULTI forms and
\* GEOMETRYCOLLECTION.
C16_EveryPairOnce ==
  step = "transformed" =>
    /\ geoOut.value.type = geoIn.value.type
    /\ Len(geoOut.value.geometries) = Len(geoIn.value.geometries)
    /\ Untransformed(geoOut.value.coordinates) = geoIn.value.coordinates
    /\ \A i \in 1..Len(geoOut.value.geometries) :
         Untransformed(geoOut.value.geometries[i].coordinates)
           = geoIn.value.geometries[i].coordinates
    /\ \A c \in ArraysOf(geoOut.value) : \A q \in PairsOf(c) : q.times = 1

\* C17 as stated: a literal that cannot be parsed, coordinates that cannot
\* be transformed and a failed lookup of the projection are swallowed, and
\* the map section is displayed at the end of the load only if a geometry
\* was parsed, reprojected where needed and added to the map.
C17_MapOnlyOnSuccess ==
  /\ net.map = "failed" => pc # "error" /\ errors = << >>
  /\ (pc = "done" /\ dom.map) =>
       /\ net.map = "ok"
       /\ mapLayer # "none"
       /\ epsg # "failed"

\* ------------------------------------------------------------ table claims

\* The triples of the DESCRIBE result about the resource, in their order.
SubjectTriples ==
  SelectSeq(triples, LAMBDA t : t.subject = resourceURI.value)

\* Those with the predicate pr.
TriplesWith(pr) == SelectSeq(SubjectTriples, LAMBDA t : t.predicate = pr)

\* String a comes before string b, by code units.
RECURSIVE StrBefore(_, _)
StrBefore(a, b) ==
  IF b = << >> THEN FALSE
  ELSE IF a = << >> THEN TRUE
  ELSE IF Head(a) = Head(b) THEN StrBefore(Tail(a), Tail(b))
  ELSE CharCode(Head(a)) < CharCode(Head(b))

\* The formatted value v displays the term o.
Displays(v, o) ==
  IF o.termType = "NamedNode" THEN v.title = o.value
  ELSE v.text = o.value /\ v.lang = o.language

\* C18: the property table holds exactly the triples whose subject is the
\* resource URI, one row per distinct predicate, the rows in lexicographic
\* order of the full predicate URI, and under each predicate the values in
\* the order of their triples, none dropped and none deduplicated.
C18_TableGroupsAndSorts ==
  dom.properties =>
    /\ {table[r].predicate : r \in 1..Len(table)}
         = {SubjectTriples[i].predicate : i \in 1..Len(SubjectTriples)}
    /\ \A r \in 1..(Len(table) - 1) :
         StrBefore(table[r].predicate, table[r + 1].predicate)
    /\ \A r \in 1..Len(table) :
         LET ts == TriplesWith(table[r].predicate)
         IN  /\ Len(table[r].values) = Len(ts)
             /\ \A i \in 1..Len(ts) : Displays(table[r].values[i], ts[i].object)

\* Two triples of the resource share a predicate and differ in their
\* objects: one row, with their values in the order of the triples.
C18_Witness ==
  /\ dom.properties
  /\ Len(triples) = 2
  /\ triples[1].object.value = <<"y">>
  /\ triples[2].object.value = <<"x">>
  /\ Len(table) = 1
  /\ Len(table[1].values) = 2
  /\ table[1].values[1].text = <<"y">>
  /\ table[1].values[2].text = <<"x">>

\* ------------------------------------------------------- visibility claims

\* The load has ended: in Done, or in Error (no URI, empty result, failed
\* query or parse).
Terminal == pc \in {"done", "error"}

\* C21: in every reachable state of a page load the page-level error panel
\* and the property table section are never both visible, and in every
\* terminal state (Done, Error, no URI, empty result) the loading indicator
\* is hidden.
C21_PanelsExclusive ==
  /\ ~(dom.error /\ dom.properties)
  /\ Terminal => ~dom.loading
  /\ (Terminal /\ errors # << >>) => (dom.error /\ ~dom.properties)
  /\ pc = "done" => (dom.properties /\ ~dom.error)

\* A load that showed the loading indicator and then the property table has
\* ended in Done with the indicator hidden and no error panel.
C21_Witness ==
  /\ pc = "done"
  /\ Has(log, "describeQuery")
  /\ dom.properties
  /\ ~dom.error
  /\ ~dom.loading

\* ----------------------------------------------------------- viewer claims

\* Every download started has completed, and there was one.
AllCompleted ==
  /\ requests # << >>
  /\ \A i \in 1..Len(requests) : requests[i].stage = "done"

\* The Accept header of the format with the label l.
AcceptOf(l) == (CHOOSE f \in Formats : f.label = l).accept

\* C22: when raw RDF downloads are requested in several formats in quick
\* succession, once all requests have completed the content of the viewer
\* is the response for the format named in its title, whatever the order of
\* the responses; and a failed download is shown only inside the viewer,
\* never as the page-level error.
C22_LatestFormatShown ==
  /\ AllCompleted =>
       \/ rdfViewer.code = BodyText(AcceptOf(rdfViewer.title))
       \/ rdfViewer.code = FetchErrorText(rdfViewer.title)
  /\ requests # << >> => (~dom.error /\ errors = << >>)

\* The second half of C22 alone: a download, failed or not, never shows the
\* page-level error.
FailureStaysInViewer ==
  requests # << >> => (~dom.error /\ errors = << >>)

====
